---- MODULE Spec2Model ----
(***************************************************************************)
(* Event-sourcing core of toggler: the Aggregate capability (apply_event,  *)
(* hydrate), Generation, the DomainEvent envelope, the stored row and its  *)
(* text encodings, and SqliteRepository (get / persist) over the `events`  *)
(* table, together with the command handlers that call it.                 *)
(***************************************************************************)
EXTENDS Integers, Sequences, FiniteSets, TLC

VARIABLES
    events,           \* the `events` table: its rows in rowid (insertion) order
    last,             \* the last repository / handler call: arguments and result
    minted,           \* the UUIDs Uuid::new_v4 has returned so far
    overflow_checks,  \* the build: TRUE = integer overflow panics, FALSE = wraps
    applied,          \* the current call of the Aggregate capability: create,
                      \* apply_event, or hydrate with its loop position and state
    workers,          \* the Executor threads of the SyncArbiter: each one's
                      \* position in Handler<CreateProject> and its open transaction
    reserved          \* the connection (by worker) that holds the database's
                      \* write lock, 0 for none

vars == <<events, last, minted, overflow_checks, applied, workers, reserved>>

executors == <<workers, reserved>>

(***************************************************************************)
(* Bounds of the model.                                                    *)
(***************************************************************************)
NumUuids == 2
MaxRows == 2
MaxEvents == 2
MaxFold == 3
NumMint == 4

(***************************************************************************)
(* Program constants: Generation wraps an i32.                             *)
(***************************************************************************)
MaxI32 == 2147483647
MinI32 == (-2147483647) - 1

Uuids == 1..NumUuids
Names == {"", "test"}
Times == {0}

(***************************************************************************)
(* Result and Option.                                                      *)
(***************************************************************************)
Ok(v) == [ok |-> TRUE, val |-> v]
Err(e) == [ok |-> FALSE, err |-> e]
None == [some |-> FALSE]
Some(v) == [some |-> TRUE, v |-> v]
Unit == "()"

(***************************************************************************)
(* Generation (domain/mod.rs).  next is i32 addition: at i32::MAX it       *)
(* panics in a build with overflow checks and wraps otherwise.             *)
(***************************************************************************)
first == 0

next_overflows(g) == g = MaxI32

next(g) == IF g = MaxI32 THEN MinI32 ELSE g + 1

Generations == {first, next(first), MaxI32}

\* A call of Generation::next in a build with (`checks`) or without overflow
\* checks.
next_call(g, checks) ==
    IF next_overflows(g) /\ checks THEN [ok |-> FALSE, err |-> [kind |-> "Panic"]]
    ELSE [ok |-> TRUE, val |-> next(g)]

(***************************************************************************)
(* Events and aggregates.  Both event enums have the single variant        *)
(* Created { id, name }.                                                   *)
(***************************************************************************)
Created(id, name) == [variant |-> "Created", id |-> id, name |-> name]

ProjectEvents == {Created(u, n) : u \in Uuids, n \in Names}

type_(event) == IF event.variant = "Created" THEN "Created" ELSE "?"

InvalidStateEvent(state, event) ==
    [kind |-> "InvalidStateEvent", state |-> state, event |-> event]

\* A variant that drops the name it is given.
Project_create_unnamed(id, name) == Ok(<<Created(id, "")>>)

Project_create(id, name) == Ok(<<Created(id, name)>>)

Toggle_create(id, name) == Ok(<<Created(id, name)>>)

Project_apply_event_overwrite(project, event) ==
    IF event.variant = "Created"
    THEN Ok([id |-> event.id, generation |-> first, name |-> event.name])
    ELSE Err(InvalidStateEvent(project, event))

\* A variant that starts the new state one generation late.
Project_apply_event_at_next(project, event) ==
    IF ~project.some /\ event.variant = "Created"
    THEN Ok([id |-> event.id, generation |-> next(first), name |-> event.name])
    ELSE Err(InvalidStateEvent(project, event))

Project_apply_event(project, event) ==
    IF ~project.some /\ event.variant = "Created"
    THEN Ok([id |-> event.id, generation |-> first, name |-> event.name])
    ELSE Err(InvalidStateEvent(project, event))

\* A variant that counts the Created event as the Toggle's first version.
Toggle_apply_event_versioned(state, event) ==
    IF ~state.some /\ event.variant = "Created"
    THEN Ok([id |-> event.id, generation |-> first, name |-> event.name,
             version |-> 1])
    ELSE Err(InvalidStateEvent(state, event))

Toggle_apply_event(state, event) ==
    IF ~state.some /\ event.variant = "Created"
    THEN Ok([id |-> event.id, generation |-> first, name |-> event.name,
             version |-> 0])
    ELSE Err(InvalidStateEvent(state, event))

Aggregates == {"Project", "Toggle"}

apply_event(agg, state, event) ==
    IF agg = "Project" THEN Project_apply_event(state, event)
    ELSE Toggle_apply_event(state, event)

\* Variants of the loop iteration that differ from the code: one that does
\* not store the new state, one that drops an event apply_event rejects, and
\* one that reads the table while applying.
hydrate_step_unwrapped(agg, acc, event) ==
    IF ~acc.ok THEN acc
    ELSE LET r == apply_event(agg, acc.val, event)
         IN  IF r.ok THEN acc ELSE r

hydrate_step_skipping(agg, acc, event) ==
    IF ~acc.ok THEN acc
    ELSE LET r == apply_event(agg, acc.val, event)
         IN  IF r.ok THEN Ok(Some(r.val)) ELSE acc

hydrate_step_stamped(agg, acc, event) ==
    IF ~acc.ok THEN acc
    ELSE LET r == apply_event(agg, acc.val, event)
         IN  IF r.ok THEN Ok(Some([r.val EXCEPT !.generation = Len(events)]))
             ELSE r

\* One iteration of hydrate's loop on the running result `acc`
\* (Ok(state) so far, or the error that ended the loop).
hydrate_step(agg, acc, event) ==
    IF ~acc.ok THEN acc
    ELSE LET r == apply_event(agg, acc.val, event)
         IN  IF r.ok THEN Ok(Some(r.val)) ELSE r

RECURSIVE hydrate_from(_, _, _, _)
hydrate_from(agg, acc, evs, i) ==
    IF i > Len(evs) \/ ~acc.ok THEN acc
    ELSE hydrate_from(agg, hydrate_step(agg, acc, evs[i]), evs, i + 1)

hydrate(agg, evs) == hydrate_from(agg, Ok(None), evs, 1)

\* A variant that builds the state from the first event and ignores the rest.
Project_hydrate_first_only(evs) ==
    hydrate("Project", IF evs = <<>> THEN <<>> ELSE <<Head(evs)>>)

Project_hydrate(evs) == hydrate("Project", evs)

(***************************************************************************)
(* States an Option<Self> argument can hold.                               *)
(***************************************************************************)
ProjectValues ==
    {[id |-> u, generation |-> g, name |-> n] :
        u \in Uuids, g \in Generations, n \in Names}

ToggleValues ==
    {[id |-> u, generation |-> g, name |-> n, version |-> 0] :
        u \in Uuids, g \in Generations, n \in Names}

OptionStates(agg) ==
    {None} \cup {Some(v) : v \in IF agg = "Project" THEN ProjectValues
                                 ELSE ToggleValues}

(***************************************************************************)
(* Text encodings of the stored row.  A UUID has several accepted          *)
(* spellings; to_string writes the hyphenated lower-case one, parse_str    *)
(* accepts the hyphenated and the simple (no hyphens) spelling and rejects *)
(* anything else.                                                          *)
(***************************************************************************)
Hyphenated(u) == [form |-> "hyphenated", u |-> u]
Simple(u) == [form |-> "simple", u |-> u]
GarbageText == [form |-> "garbage", u |-> 0]

to_string(u) == Hyphenated(u)

UuidParseError == [kind |-> "UuidParseError"]
DateTimeParseError == [kind |-> "DateTimeParseError"]
JsonParseError == [kind |-> "JsonParseError"]

parse_str(s) ==
    IF s.form \in {"hyphenated", "simple"} THEN Ok(s.u) ELSE Err(UuidParseError)

\* created_at: an instant is written as RFC3339 with offset +00:00; a string
\* with another offset parses to the instant local - offset.
to_rfc3339(t) == [form |-> "rfc3339", local |-> t, offset |-> 0]

parse_datetime(s) ==
    IF s.form = "rfc3339" THEN Ok(s.local - s.offset) ELSE Err(DateTimeParseError)

\* data: serde_json writes an externally tagged enum,
\* {"Created":{"id":"<hyphenated uuid>","name":"<name>"}}.
serde_json_to_string(event) ==
    Ok([form |-> "json", variant |-> event.variant, id |-> to_string(event.id),
        name |-> event.name])

serde_json_from_str(d) ==
    IF d.form # "json" THEN Err(JsonParseError)
    ELSE IF d.variant # "Created" THEN Err(JsonParseError)
    ELSE IF ~parse_str(d.id).ok THEN Err(JsonParseError)
    ELSE Ok(Created(parse_str(d.id).val, d.name))

(***************************************************************************)
(* DomainEvent envelope and DomainEvent::from_event: the fields are        *)
(* decoded in the order id, aggregate_id, created_at, data, and the first  *)
(* failure is the error.                                                   *)
(***************************************************************************)
DomainEvent(id, aggregate_id, created_at, event) ==
    [id |-> id, aggregate_id |-> aggregate_id, created_at |-> created_at,
     event |-> event]

from_event(row) ==
    IF ~parse_str(row.id).ok THEN Err(UuidParseError)
    ELSE IF ~parse_str(row.aggregate_id).ok THEN Err(UuidParseError)
    ELSE IF ~parse_datetime(row.created_at).ok THEN Err(DateTimeParseError)
    ELSE IF ~serde_json_from_str(row.data).ok THEN Err(JsonParseError)
    ELSE Ok(DomainEvent(parse_str(row.id).val, parse_str(row.aggregate_id).val,
                        parse_datetime(row.created_at).val,
                        serde_json_from_str(row.data).val))

(***************************************************************************)
(* The `events` table.  schema.rs declares one key, the primary key `id`;  *)
(* an insert of a row whose id text is already stored is refused.          *)
(***************************************************************************)
NewEvent(id, aggregate_id, generation, created_at, typ, data) ==
    [id |-> id, aggregate_id |-> aggregate_id, generation |-> generation,
     created_at |-> created_at, type_ |-> typ, data |-> data]

UniqueViolation == [kind |-> "UniqueViolation"]
IoError == [kind |-> "IoError"]
DatabaseError(cause) == [kind |-> "DatabaseError", cause |-> cause]
DomainEventError(cause) == [kind |-> "DomainEventError", cause |-> cause]
ProjectError(cause) == [kind |-> "ProjectError", cause |-> cause]
NotFoundError == [kind |-> "NotFoundError"]

violates_primary_key(tbl, row) == \E i \in 1..Len(tbl) : tbl[i].id = row.id

\* diesel::insert_into(events).values(&new).execute(db); `io` is whether the
\* storage call itself goes through.
insert_into(tbl, row, io) ==
    IF ~io THEN Err(IoError)
    ELSE IF violates_primary_key(tbl, row) THEN Err(UniqueViolation)
    ELSE Ok(Append(tbl, row))

\* A variant of the load without the filter.
filter_load_all(tbl, text) == tbl

\* events.filter(aggregate_id.eq(text)).load(db): a scan of the table in
\* rowid order; the query states no ORDER BY.
RECURSIVE filter_load(_, _)
filter_load(tbl, text) ==
    IF tbl = <<>> THEN <<>>
    ELSE IF Head(tbl).aggregate_id = text
         THEN <<Head(tbl)>> \o filter_load(Tail(tbl), text)
         ELSE filter_load(Tail(tbl), text)

(***************************************************************************)
(* SqliteRepository::get.  `io` is whether the load goes through.          *)
(***************************************************************************)
RECURSIVE collect_skipping(_)
collect_skipping(rows) ==
    IF rows = <<>> THEN Ok(<<>>)
    ELSE LET e == from_event(Head(rows))
             rest == collect_skipping(Tail(rows))
         IN  IF ~e.ok THEN rest ELSE Ok(<<e.val.event>> \o rest.val)

RECURSIVE collect(_)
collect(rows) ==
    IF rows = <<>> THEN Ok(<<>>)
    ELSE LET e == from_event(Head(rows))
         IN  IF ~e.ok THEN e
             ELSE LET rest == collect(Tail(rows))
                  IN  IF ~rest.ok THEN rest
                      ELSE Ok(<<e.val.event>> \o rest.val)

hydrate_loaded_or_default(rows) ==
    LET results == collect(rows)
    IN  IF ~results.ok THEN Err(DomainEventError(results.err))
        ELSE LET project == Project_hydrate(results.val)
             IN  IF ~project.ok THEN Err(ProjectError(project.err))
                 ELSE IF ~project.val.some
                      THEN Ok([id |-> 0, generation |-> first, name |-> ""])
                 ELSE Ok(project.val.v)

\* A variant that applies the events of the rows that decode before it
\* reports a row that does not.
hydrate_loaded_applying_first(rows) ==
    LET results == collect(rows)
        project == Project_hydrate(collect_skipping(rows).val)
    IN  IF ~project.ok THEN Err(ProjectError(project.err))
        ELSE IF ~results.ok THEN Err(DomainEventError(results.err))
        ELSE IF ~project.val.some THEN Err(NotFoundError)
        ELSE Ok(project.val.v)

hydrate_loaded(rows) ==
    LET results == collect(rows)
    IN  IF ~results.ok THEN Err(DomainEventError(results.err))
        ELSE LET project == Project_hydrate(results.val)
             IN  IF ~project.ok THEN Err(ProjectError(project.err))
                 ELSE IF ~project.val.some THEN Err(NotFoundError)
                 ELSE Ok(project.val.v)

\* A variant that reports a failed load as an absent aggregate.
get_absent_on_failure(tbl, id, io) ==
    IF ~io THEN Err(NotFoundError)
    ELSE hydrate_loaded(filter_load(tbl, to_string(id)))

\* A variant that looks the id up under its simple (no hyphens) spelling.
get_simple(tbl, id, io) ==
    IF ~io THEN Err(DatabaseError(IoError))
    ELSE hydrate_loaded(filter_load(tbl, Simple(id)))

get(tbl, id, io) ==
    IF ~io THEN Err(DatabaseError(IoError))
    ELSE hydrate_loaded(filter_load(tbl, to_string(id)))

(***************************************************************************)
(* SqliteRepository::persist.  `failAt` is the insert (1-based) at which   *)
(* the storage call itself fails, 0 for none.  The result is the table     *)
(* after the call and what the call returned; every insert is its own      *)
(* statement on the connection.  Panic is the unwinding of                 *)
(* generation.next() at i32::MAX in a build with overflow checks.          *)
(***************************************************************************)
Panic == [ok |-> FALSE, err |-> [kind |-> "Panic"]]

new_event_simple(event, generation) ==
    NewEvent(to_string(event.id), Simple(event.aggregate_id), generation,
             to_rfc3339(event.created_at), type_(event.event),
             serde_json_to_string(event.event).val)

\* A variant that stores the row one generation later than it was given.
new_event_at_next(event, generation) ==
    NewEvent(to_string(event.id), to_string(event.aggregate_id), next(generation),
             to_rfc3339(event.created_at), type_(event.event),
             serde_json_to_string(event.event).val)

new_event(event, generation) ==
    NewEvent(to_string(event.id), to_string(event.aggregate_id), generation,
             to_rfc3339(event.created_at), type_(event.event),
             serde_json_to_string(event.event).val)

\* A variant that carries on with the remaining events after a failed
\* insert and reports the failure at the end.
RECURSIVE persist_from_skipping(_, _, _, _, _, _)
persist_from_skipping(tbl, generation, evs, i, failAt, checks) ==
    IF i > Len(evs) THEN [tbl |-> tbl, res |-> Ok(Unit)]
    ELSE LET ins == insert_into(tbl, new_event(evs[i], generation), i # failAt)
         IN  IF ~ins.ok
             THEN [tbl |-> persist_from_skipping(tbl, generation, evs, i + 1,
                                                 failAt, checks).tbl,
                   res |-> Err(DatabaseError(ins.err))]
             ELSE IF next_overflows(generation) /\ checks
                  THEN [tbl |-> ins.val, res |-> Panic]
                  ELSE persist_from_skipping(ins.val, next(generation), evs,
                                             i + 1, failAt, checks)

RECURSIVE persist_from(_, _, _, _, _, _)
persist_from(tbl, generation, evs, i, failAt, checks) ==
    IF i > Len(evs) THEN [tbl |-> tbl, res |-> Ok(Unit)]
    ELSE LET ins == insert_into(tbl, new_event(evs[i], generation), i # failAt)
         IN  IF ~ins.ok THEN [tbl |-> tbl, res |-> Err(DatabaseError(ins.err))]
             ELSE IF next_overflows(generation) /\ checks
                  THEN [tbl |-> ins.val, res |-> Panic]
                  ELSE persist_from(ins.val, next(generation), evs, i + 1,
                                    failAt, checks)

\* A variant that takes generation.next() before it looks at the slice.
persist_stepping_first(tbl, generation, evs, failAt, checks) ==
    IF next_overflows(generation) /\ checks THEN [tbl |-> tbl, res |-> Panic]
    ELSE persist_from(tbl, generation, evs, 1, failAt, checks)

persist(tbl, generation, evs, failAt, checks) ==
    persist_from(tbl, generation, evs, 1, failAt, checks)

\* A variant whose rollback empties the table.
transaction_wiping(tbl, run) ==
    IF run.res.ok THEN run ELSE [tbl |-> <<>>, res |-> run.res]

\* A variant whose rollback also takes back the newest row of the table.
transaction_dropping_last(tbl, run) ==
    IF run.res.ok THEN run
    ELSE [tbl |-> SubSeq(tbl, 1, Len(tbl) - 1), res |-> run.res]

\* db.transaction(|| ...): the rows of a call that did not return Ok are
\* rolled back.
transaction(tbl, run) ==
    IF run.res.ok THEN run ELSE [tbl |-> tbl, res |-> run.res]

(***************************************************************************)
(* Uuid::new_v4: a UUID no caller holds and no earlier call returned.      *)
(* Callers' own UUIDs are Uuids; the generator draws from MintPool.        *)
(***************************************************************************)
MintPool == (NumUuids + 1)..(NumUuids + NumMint)

\* SyncArbiter::start(3, ..): the number of Executor threads.
NumWorkers == 3

new_v4(m) == CHOOSE u \in MintPool \ m : \A v \in MintPool \ m : u <= v

(***************************************************************************)
(* CreateProjectHandler::handle on a repository, and the Executor's        *)
(* Handler<CreateProject>, which runs it inside db.transaction with a      *)
(* fresh project id.  `eid` is the event id new_v4 returns, `now` what     *)
(* utc_now returns.                                                        *)
(***************************************************************************)
RepositoryError(e) == [kind |-> "RepositoryError", cause |-> e]
CreateProjectError(e) == [kind |-> "CreateProjectError", cause |-> e]
ListProjectError(e) == [kind |-> "ListProjectError", cause |-> e]
DatabasePoolError == [kind |-> "DatabasePoolError"]

\* A variant of the handler that persists at Generation::first().next().
CreateProjectHandler_handle_at_next(tbl, id, name, eid, now, failAt, checks) ==
    LET created == Project_create(id, name)
        project == Project_hydrate(created.val)
        envelopes == [k \in 1..Len(created.val) |->
                         DomainEvent(eid, id, now, created.val[k])]
        run == persist(tbl, next(first), envelopes, failAt, checks)
    IN  IF run.res.ok THEN [tbl |-> run.tbl, res |-> Ok(project.val.v)]
        ELSE [tbl |-> run.tbl, res |-> Err(RepositoryError(run.res.err))]

CreateProjectHandler_handle(tbl, id, name, eid, now, failAt, checks) ==
    LET created == Project_create(id, name)
    IN  IF ~created.ok THEN [tbl |-> tbl, res |-> Err(ProjectError(created.err))]
        ELSE LET project == Project_hydrate(created.val)
             IN  IF ~project.ok
                 THEN [tbl |-> tbl, res |-> Err(ProjectError(project.err))]
                 ELSE IF ~project.val.some THEN [tbl |-> tbl, res |-> Panic]
                 ELSE LET envelopes ==
                              [k \in 1..Len(created.val) |->
                                  DomainEvent(eid, id, now, created.val[k])]
                          run == persist(tbl, first, envelopes, failAt, checks)
                      IN  IF run.res.ok
                          THEN [tbl |-> run.tbl, res |-> Ok(project.val.v)]
                          ELSE IF run.res = Panic THEN run
                          ELSE [tbl |-> run.tbl,
                                res |-> Err(RepositoryError(run.res.err))]

Executor_handle_CreateProject(tbl, name, id, eid, now, pool_ok, failAt, checks) ==
    IF ~pool_ok THEN [tbl |-> tbl, res |-> Err(DatabasePoolError)]
    ELSE LET run == transaction(tbl,
                        CreateProjectHandler_handle(tbl, id, name, eid, now,
                                                    failAt, checks))
         IN  IF run.res.ok \/ run.res = Panic THEN run
             ELSE [tbl |-> run.tbl, res |-> Err(CreateProjectError(run.res.err))]

(***************************************************************************)
(* ListProjectHandler::handle and the Executor's Handler<ListProject>,     *)
(* which runs it inside db.transaction.                                    *)
(***************************************************************************)
ListProjectHandler_handle(tbl, id, io) ==
    LET project == get(tbl, id, io)
    IN  IF project.ok THEN project ELSE Err(RepositoryError(project.err))

Executor_handle_ListProject(tbl, id, pool_ok, io) ==
    IF ~pool_ok THEN [tbl |-> tbl, res |-> Err(DatabasePoolError)]
    ELSE LET run == transaction(tbl,
                        [tbl |-> tbl, res |-> ListProjectHandler_handle(tbl, id, io)])
         IN  IF run.res.ok THEN run
             ELSE [tbl |-> run.tbl, res |-> Err(ListProjectError(run.res.err))]

(***************************************************************************)
(* ResponseError for AppError: the status of the response for an error,    *)
(* arm by arm; the NotFoundError arm comes before the general              *)
(* ListProjectError arm.  A handler that panicked reaches the boundary as  *)
(* MailboxError.                                                           *)
(***************************************************************************)
OK == 200
BAD_REQUEST == 400
NOT_FOUND == 404
INTERNAL_SERVER_ERROR == 500

error_response(e) ==
    CASE e.kind = "DatabasePoolError" -> INTERNAL_SERVER_ERROR
      [] e.kind = "DatabaseError" -> INTERNAL_SERVER_ERROR
      [] e.kind \in {"MailboxError", "Panic"} -> INTERNAL_SERVER_ERROR
      [] e.kind = "JsonPayloadError" -> INTERNAL_SERVER_ERROR
      [] e.kind = "CreateProjectError" -> BAD_REQUEST
      [] e.kind = "ListProjectError" /\ e.cause = RepositoryError(NotFoundError) ->
            NOT_FOUND
      [] e.kind = "ListProjectError" /\ e.cause # RepositoryError(NotFoundError) ->
            INTERNAL_SERVER_ERROR

\* create_project / list_project: Json(project) on Ok, error_response on Err.
respond(res) == IF res.ok THEN OK ELSE error_response(res.err)

(***************************************************************************)
(* Inputs.                                                                 *)
(***************************************************************************)
Envelopes ==
    {DomainEvent(i, a, t, Created(p, "test")) :
        i \in Uuids, a \in Uuids, t \in Times, p \in Uuids}

EnvelopeLists ==
    UNION {[1..n -> Envelopes] : n \in 0..MaxEvents}

\* Rows a fixture writes straight into the table (the tests' insert_into):
\* a well-formed row, or one with a single field spoilt or respelt.
Defects ==
    {"none", "id", "aggregate_id", "created_at", "data", "simple_aggregate_id"}

Spoilt(row, d) ==
    CASE d = "id" -> [row EXCEPT !.id = GarbageText]
      [] d = "aggregate_id" -> [row EXCEPT !.aggregate_id = GarbageText]
      [] d = "created_at" ->
            [row EXCEPT !.created_at = [form |-> "garbage", local |-> 0, offset |-> 0]]
      [] d = "data" ->
            [row EXCEPT !.data = [form |-> "garbage", variant |-> "",
                                  id |-> GarbageText, name |-> ""]]
      [] d = "simple_aggregate_id" ->
            [row EXCEPT !.aggregate_id = Simple(row.aggregate_id.u)]
      [] OTHER -> row

\* A row with a field no decoder accepts.
Malformed(row) ==
    \/ row.id.form = "garbage"
    \/ row.aggregate_id.form = "garbage"
    \/ row.created_at.form = "garbage"
    \/ row.data.form = "garbage"

RawRows ==
    {Spoilt(new_event(e, g), d) :
        e \in {x \in Envelopes : x.event.id = x.aggregate_id},
        g \in {first}, d \in Defects}

(***************************************************************************)
(* State machine of the repository and its handlers: each call is one      *)
(* step on the connection.                                                 *)
(***************************************************************************)
Init ==
    /\ events = <<>>
    /\ last = [op |-> "init"]
    /\ minted = {}
    /\ overflow_checks \in BOOLEAN
    /\ applied = [op |-> "init", done |-> TRUE]
    /\ workers = [w \in 1..NumWorkers |-> [pc |-> "idle"]]
    /\ reserved = 0

InsertRaw(row) ==
    /\ Len(events) < MaxRows
    /\ LET ins == insert_into(events, row, TRUE)
       IN  /\ events' = IF ins.ok THEN ins.val ELSE events
           /\ last' = [op |-> "insert_into", ok |-> ins.ok]
    /\ UNCHANGED <<minted, overflow_checks, applied, executors>>

Persist(generation, evs, failAt) ==
    /\ Len(events) + Len(evs) <= MaxRows
    /\ LET run == persist(events, generation, evs, failAt, overflow_checks)
       IN  /\ events' = run.tbl
           /\ last' = [op |-> "persist", generation |-> generation, evs |-> evs,
                       failAt |-> failAt, start |-> Len(events), res |-> run.res]
    /\ UNCHANGED <<minted, overflow_checks, applied, executors>>

\* A variant of get that removes the rows it has read.
Get_consuming(id, io) ==
    /\ last' = [op |-> "get", id |-> id, io |-> io, res |-> get(events, id, io)]
    /\ events' = SelectSeq(events, LAMBDA r : r.aggregate_id # to_string(id))
    /\ UNCHANGED <<minted, overflow_checks, applied, executors>>

Get(id, io) ==
    /\ last' = [op |-> "get", id |-> id, io |-> io, res |-> get(events, id, io)]
    /\ UNCHANGED <<events, minted, overflow_checks, applied, executors>>

CreateProject(id, name, now, failAt) ==
    /\ Len(events) < MaxRows
    /\ MintPool \ minted # {}
    /\ LET eid == new_v4(minted)
           run == CreateProjectHandler_handle(events, id, name, eid, now, failAt,
                                              overflow_checks)
       IN  /\ events' = run.tbl
           /\ minted' = minted \cup {eid}
           /\ last' = [op |-> "create", id |-> id, name |-> name,
                       start |-> Len(events), res |-> run.res]
    /\ UNCHANGED <<overflow_checks, applied, executors>>

ExecCreateProject(name, now, pool_ok, failAt) ==
    /\ Len(events) < MaxRows
    /\ Cardinality(MintPool \ minted) >= 2
    /\ LET id == new_v4(minted)
           eid == new_v4(minted \cup {id})
           run == Executor_handle_CreateProject(events, name, id, eid, now,
                                                pool_ok, failAt, overflow_checks)
       IN  /\ events' = run.tbl
           /\ minted' = minted \cup {id, eid}
           /\ last' = [op |-> "exec_create", id |-> id, name |-> name,
                       start |-> Len(events), res |-> run.res,
                       status |-> respond(run.res)]
    /\ UNCHANGED <<overflow_checks, applied, executors>>

ExecListProject(id, pool_ok, io) ==
    /\ LET run == Executor_handle_ListProject(events, id, pool_ok, io)
       IN  /\ events' = run.tbl
           /\ last' = [op |-> "exec_list", id |-> id, res |-> run.res,
                       status |-> respond(run.res)]
    /\ UNCHANGED <<minted, overflow_checks, applied, executors>>

NextRepo ==
    \/ \E g \in Generations, evs \in EnvelopeLists :
          \E failAt \in 0..Len(evs) : Persist(g, evs, failAt)
    \/ \E id \in Uuids \cup minted, io \in BOOLEAN : Get(id, io)
    \/ \E id \in Uuids, name \in Names, now \in Times, failAt \in 0..1 :
          CreateProject(id, name, now, failAt)
    \/ \E name \in Names, now \in Times, pool_ok \in BOOLEAN, failAt \in 0..1 :
          ExecCreateProject(name, now, pool_ok, failAt)

Next ==
    \/ \E row \in RawRows : InsertRaw(row)
    \/ NextRepo

\* The repository and handlers alone: every stored row was written by persist.
SpecRepo == Init /\ [][NextRepo]_vars

\* The same with fixture rows written straight into the table.
Spec == Init /\ [][Next]_vars

\* The create_project command alone, through the handler and through the
\* Executor: every stored row was written by a create, and get reads them.
NextCreate ==
    \/ \E id \in Uuids, name \in Names, now \in Times, failAt \in 0..1 :
          CreateProject(id, name, now, failAt)
    \/ \E name \in Names, now \in Times, pool_ok \in BOOLEAN, failAt \in 0..1 :
          ExecCreateProject(name, now, pool_ok, failAt)
    \/ \E id \in Uuids \cup minted, io \in BOOLEAN : Get(id, io)

SpecCreate == Init /\ [][NextCreate]_vars

\* get on tables of fixture rows alone, long enough to hold two rows that
\* decode and one that does not under one aggregate id.
MaxLoad == 3

InsertFixture(row) ==
    /\ Len(events) < MaxLoad
    /\ LET ins == insert_into(events, row, TRUE)
       IN  /\ events' = IF ins.ok THEN ins.val ELSE events
           /\ last' = [op |-> "insert_into", ok |-> ins.ok]
    /\ UNCHANGED <<minted, overflow_checks, applied, executors>>

NextLoad ==
    \/ \E row \in RawRows : InsertFixture(row)
    \/ \E id \in Uuids, io \in BOOLEAN : Get(id, io)

SpecLoad == Init /\ [][NextLoad]_vars

\* The HTTP boundary: the two commands of the Executor, on a table the tests
\* seed with fixture rows.
NextApp ==
    \/ \E row \in RawRows : InsertRaw(row)
    \/ \E name \in Names, now \in Times, pool_ok \in BOOLEAN, failAt \in 0..1 :
          ExecCreateProject(name, now, pool_ok, failAt)
    \/ \E id \in Uuids \cup minted, pool_ok \in BOOLEAN, io \in BOOLEAN :
          ExecListProject(id, pool_ok, io)

SpecApp == Init /\ [][NextApp]_vars

(***************************************************************************)
(* The Executor threads handling CreateProject messages side by side.      *)
(* Each thread takes its own connection from the pool and runs the handler *)
(* inside db.transaction, so a message is handled in three steps: Receive  *)
(* (pool get and BEGIN), Handle (the closure: mint the id, run             *)
(* CreateProjectHandler::handle, whose insert takes the database's write   *)
(* lock) and Commit (COMMIT, which publishes the row and frees the lock).  *)
(* The connections are opened with no busy timeout: an insert on one       *)
(* connection while another holds the write lock fails at once, the        *)
(* handler returns the error and the transaction is rolled back.           *)
(***************************************************************************)
in_flight == {w \in 1..NumWorkers : workers[w].pc \in {"begun", "inserted"}}

Receive(w, name, pool_ok) ==
    /\ workers[w].pc = "idle"
    /\ Len(events) + Cardinality(in_flight) < MaxRows
    /\ workers' = [workers EXCEPT ![w] =
                      IF pool_ok THEN [pc |-> "begun", name |-> name]
                      ELSE [pc |-> "done", name |-> name,
                            res |-> Err(DatabasePoolError)]]
    /\ UNCHANGED <<events, last, minted, overflow_checks, applied, reserved>>

Handle(w, now) ==
    /\ workers[w].pc = "begun"
    /\ Cardinality(MintPool \ minted) >= 2
    /\ LET id == new_v4(minted)
           eid == new_v4(minted \cup {id})
           locked == reserved \notin {0, w}
           run == CreateProjectHandler_handle(events, id, workers[w].name, eid, now,
                                              IF locked THEN 1 ELSE 0,
                                              overflow_checks)
       IN  /\ minted' = minted \cup {id, eid}
           /\ IF run.res.ok
              THEN /\ workers' = [workers EXCEPT ![w] =
                          [pc |-> "inserted", name |-> workers[w].name, id |-> id,
                           pending |-> SubSeq(run.tbl, Len(events) + 1, Len(run.tbl)),
                           project |-> run.res.val]]
                   /\ reserved' = w
              ELSE /\ workers' = [workers EXCEPT ![w] =
                          [pc |-> "done", name |-> workers[w].name, id |-> id,
                           res |-> Err(CreateProjectError(run.res.err))]]
                   /\ reserved' = reserved
    /\ UNCHANGED <<events, last, overflow_checks, applied>>

Commit(w) ==
    /\ workers[w].pc = "inserted"
    /\ events' = events \o workers[w].pending
    /\ reserved' = 0
    /\ workers' = [workers EXCEPT ![w] =
                      [pc |-> "done", name |-> workers[w].name, id |-> workers[w].id,
                       res |-> Ok(workers[w].project)]]
    /\ UNCHANGED <<last, minted, overflow_checks, applied>>

NextPool ==
    \/ \E w \in 1..NumWorkers, name \in Names, pool_ok \in BOOLEAN :
          Receive(w, name, pool_ok)
    \/ \E w \in 1..NumWorkers, now \in Times : Handle(w, now)
    \/ \E w \in 1..NumWorkers : Commit(w)

SpecPool == Init /\ [][NextPool]_vars

(***************************************************************************)
(* State machine of the Aggregate capability alone: direct calls of        *)
(* create and apply_event, and hydrate run one loop iteration at a time.   *)
(***************************************************************************)
EventLists == UNION {[1..n -> ProjectEvents] : n \in 0..MaxFold}

Create(agg, id, name) ==
    /\ applied.done
    /\ applied' = [op |-> "create", agg |-> agg, id |-> id, name |-> name,
                   res |-> IF agg = "Project" THEN Project_create(id, name)
                           ELSE Toggle_create(id, name),
                   done |-> TRUE]
    /\ UNCHANGED <<events, last, minted, overflow_checks, executors>>

ApplyEvent(agg, state, event) ==
    /\ applied.done
    /\ applied' = [op |-> "apply_event", agg |-> agg, state |-> state,
                   event |-> event, res |-> apply_event(agg, state, event),
                   done |-> TRUE]
    /\ UNCHANGED <<events, last, minted, overflow_checks, executors>>

GenerationFirst ==
    /\ applied.done
    /\ applied' = [op |-> "first", res |-> first, done |-> TRUE]
    /\ UNCHANGED <<events, last, minted, overflow_checks, executors>>

GenerationNext(g) ==
    /\ applied.done
    /\ applied' = [op |-> "next", g |-> g, res |-> next_call(g, overflow_checks),
                   done |-> TRUE]
    /\ UNCHANGED <<events, last, minted, overflow_checks, executors>>

HydrateCall(agg, evs) ==
    /\ applied.done
    /\ applied' = [op |-> "hydrate", agg |-> agg, events |-> evs, i |-> 0,
                   acc |-> Ok(None), done |-> FALSE]
    /\ UNCHANGED <<events, last, minted, overflow_checks, executors>>

HydrateLoop ==
    /\ ~applied.done
    /\ applied.i < Len(applied.events)
    /\ LET acc == hydrate_step(applied.agg, applied.acc,
                               applied.events[applied.i + 1])
       IN  applied' = [applied EXCEPT !.i = applied.i + 1, !.acc = acc,
                                      !.done = ~acc.ok]
    /\ UNCHANGED <<events, last, minted, overflow_checks, executors>>

HydrateReturn ==
    /\ ~applied.done
    /\ applied.i = Len(applied.events)
    /\ applied' = [applied EXCEPT !.done = TRUE]
    /\ UNCHANGED <<events, last, minted, overflow_checks, executors>>

NextAgg ==
    \/ \E agg \in Aggregates, id \in Uuids, name \in Names : Create(agg, id, name)
    \/ \E agg \in Aggregates, event \in ProjectEvents :
          \E state \in OptionStates(agg) : ApplyEvent(agg, state, event)
    \/ \E agg \in Aggregates, evs \in EventLists : HydrateCall(agg, evs)
    \/ HydrateLoop
    \/ HydrateReturn
    \/ GenerationFirst
    \/ \E g \in Generations : GenerationNext(g)

SpecAgg == Init /\ [][NextAgg]_vars

(***************************************************************************)
(* Two calls of hydrate on the same slice, run side by side: each copy has *)
(* its own loop position and running result, the copies take their loop    *)
(* iterations in any interleaving, and rows are written to the table in    *)
(* between.  `rows` is the size of the table at a copy's last iteration.   *)
(***************************************************************************)
Copies == {"left", "right"}

copy_finished(c) == ~c.acc.ok \/ c.i = Len(applied.events)

ReplayCall(agg, evs) ==
    /\ applied.done
    /\ applied' = [op |-> "replay", agg |-> agg, events |-> evs,
                   left |-> [i |-> 0, acc |-> Ok(None), rows |-> Len(events)],
                   right |-> [i |-> 0, acc |-> Ok(None), rows |-> Len(events)],
                   done |-> FALSE]
    /\ UNCHANGED <<events, last, minted, overflow_checks, executors>>

ReplayStep(side) ==
    /\ applied.op = "replay"
    /\ ~applied.done
    /\ ~copy_finished(applied[side])
    /\ LET c == applied[side]
           acc == hydrate_step(applied.agg, c.acc, applied.events[c.i + 1])
       IN  applied' = [applied EXCEPT ![side] =
                          [i |-> c.i + 1, acc |-> acc, rows |-> Len(events)]]
    /\ UNCHANGED <<events, last, minted, overflow_checks, executors>>

ReplayReturn ==
    /\ applied.op = "replay"
    /\ ~applied.done
    /\ copy_finished(applied.left)
    /\ copy_finished(applied.right)
    /\ applied' = [applied EXCEPT !.done = TRUE]
    /\ UNCHANGED <<events, last, minted, overflow_checks, executors>>

\* Fixture rows written while the copies run: the rows of test_get, whose
\* event id, aggregate id and payload id are drawn from the same pool.
TwinRows == {r \in RawRows : r.id = r.aggregate_id /\ from_event(r).ok}

NextTwin ==
    \/ \E agg \in Aggregates, evs \in EventLists : ReplayCall(agg, evs)
    \/ \E side \in Copies : ReplayStep(side)
    \/ ReplayReturn
    \/ \E row \in TwinRows : InsertRaw(row)

SpecTwin == Init /\ [][NextTwin]_vars

(***************************************************************************)
(* C1: for Project and for Toggle, apply_event on an already-created state *)
(* (Some) with a Created event returns the InvalidStateEvent error naming  *)
(* that state and event, never a state; only (None, Created) succeeds.     *)
(***************************************************************************)
C1_CreatedOnSomeIsRejected ==
    applied.op = "apply_event" =>
        /\ applied.res.ok <=> (applied.state = None /\ applied.event.variant = "Created")
        /\ ~applied.res.ok =>
              applied.res.err = InvalidStateEvent(applied.state, applied.event)

C1_Witness ==
    /\ applied.op = "apply_event"
    /\ applied.agg = "Project"
    /\ applied.state.some
    /\ applied.event.variant = "Created"
    /\ ~applied.res.ok

(***************************************************************************)
(* Helpers of the properties below.                                        *)
(***************************************************************************)
RowsOf(tbl, text) == {i \in 1..Len(tbl) : tbl[i].aggregate_id = text}

\* The rows the last persist / create call appended.
Inserted == {i \in 1..Len(events) : i > last.start}

RECURSIVE insert_by_generation(_, _)
insert_by_generation(row, sorted) ==
    IF sorted = <<>> THEN <<row>>
    ELSE IF row.generation < Head(sorted).generation THEN <<row>> \o sorted
    ELSE <<Head(sorted)>> \o insert_by_generation(row, Tail(sorted))

RECURSIVE order_by_generation(_)
order_by_generation(rows) ==
    IF rows = <<>> THEN <<>>
    ELSE insert_by_generation(rows[Len(rows)],
                              order_by_generation(SubSeq(rows, 1, Len(rows) - 1)))

Payloads(evs) == [k \in 1..Len(evs) |-> evs[k].event]

\* What get returns for a hydrate result.
Lifted(h) ==
    IF ~h.ok THEN Err(ProjectError(h.err))
    ELSE IF ~h.val.some THEN Err(NotFoundError)
    ELSE Ok(h.val.v)

(***************************************************************************)
(* C2: a persist that starts from generation 0 for an aggregate id that    *)
(* already has a row at generation 0 fails, and the table never holds two  *)
(* rows with the same (aggregate_id, generation).                          *)
(***************************************************************************)
C2_SecondWriterAtGenerationZeroFails ==
    /\ (/\ last.op = "persist"
        /\ last.generation = first
        /\ last.evs # <<>>
        /\ \E i \in 1..last.start :
              /\ events[i].aggregate_id = to_string(last.evs[1].aggregate_id)
              /\ events[i].generation = first)
       => ~last.res.ok
    /\ \A i, j \in 1..Len(events) :
          (i # j /\ events[i].aggregate_id = events[j].aggregate_id)
             => events[i].generation # events[j].generation

(***************************************************************************)
(* C3: for every aggregate id the stored rows, in the order they were      *)
(* persisted, carry the generations 0, 1, ..., k-1: the Nth row persisted  *)
(* for an id has generation N and there is no gap.                         *)
(***************************************************************************)
C3_GenerationsAreGapFree ==
    \A i \in 1..Len(events) :
        events[i].generation =
            Cardinality({j \in 1..(i - 1) :
                            events[j].aggregate_id = events[i].aggregate_id})

(***************************************************************************)
(* C4: the row id is unique across the table, the pair (aggregate_id,      *)
(* generation) is unique across the table, and a call that returned Ok     *)
(* stored no row that repeats either of an earlier row.                    *)
(***************************************************************************)
C4_RowKeysAreUnique ==
    \A i, j \in 1..Len(events) :
        i # j =>
            /\ events[i].id # events[j].id
            /\ ~(/\ events[i].aggregate_id = events[j].aggregate_id
                 /\ events[i].generation = events[j].generation)

(***************************************************************************)
(* C5: persist is all or nothing: after a call with n events that returned *)
(* Ok all n rows are in the table, and after a call that did not return Ok *)
(* none of its rows is.  (A call that panicked did not return.)            *)
(***************************************************************************)
C5_PersistIsAllOrNothing ==
    (last.op = "persist" /\ last.res # Panic) =>
        Cardinality(Inserted) = IF last.res.ok THEN Len(last.evs) ELSE 0

(***************************************************************************)
(* C6: persist(G, events) gives the k-th event's row the generation        *)
(* G + k - 1, each one above the one before, and the row carries the       *)
(* event's id, its aggregate id and its variant name as type.              *)
(***************************************************************************)
C6_PersistNumbersRowsFromG ==
    last.op = "persist" =>
        \A i \in Inserted :
            LET k == i - last.start
            IN  /\ events[i].id = to_string(last.evs[k].id)
                /\ events[i].aggregate_id = to_string(last.evs[k].aggregate_id)
                /\ events[i].type_ = last.evs[k].event.variant
                /\ k = 1 => events[i].generation = last.generation
                /\ k > 1 => /\ events[i - 1].generation < MaxI32
                            /\ events[i].generation = events[i - 1].generation + 1

(***************************************************************************)
(* C7: get(id) replays the rows of the id in ascending generation order    *)
(* whatever order they were inserted in: its result is the one the rows    *)
(* sorted by generation give.  Stated for tables whose generations are     *)
(* all >= 0, so that no wrapped generation is involved.                    *)
(***************************************************************************)
C7_GetReplaysInGenerationOrder ==
    (/\ last.op = "get"
     /\ last.io
     /\ \A i \in 1..Len(events) : events[i].generation >= first) =>
        last.res = hydrate_loaded(order_by_generation(
                       filter_load(events, to_string(last.id))))

(***************************************************************************)
(* C8: get(id) on an id with no stored row returns NotFoundError, and a    *)
(* get that returns a Project found at least one row of that id.           *)
(***************************************************************************)
C8_GetOfNoRowsIsNotFound ==
    (last.op = "get" /\ last.io) =>
        /\ RowsOf(events, to_string(last.id)) = {} => last.res = Err(NotFoundError)
        /\ last.res.ok => RowsOf(events, to_string(last.id)) # {}

C8_Witness ==
    /\ last.op = "get"
    /\ last.io
    /\ events # <<>>
    /\ RowsOf(events, to_string(last.id)) = {}
    /\ last.res = Err(NotFoundError)

(***************************************************************************)
(* C9: if a stored row of the requested id is malformed, get(id) fails     *)
(* with DomainEventError: the row is not skipped and no Project built from *)
(* the other rows is returned.                                             *)
(***************************************************************************)
C9_MalformedRowFailsGet ==
    (/\ last.op = "get"
     /\ last.io
     /\ \E i \in RowsOf(events, to_string(last.id)) : Malformed(events[i]))
    => (~last.res.ok /\ last.res.err.kind = "DomainEventError")

C9_Witness ==
    /\ last.op = "get"
    /\ last.io
    /\ Len(events) = 2
    /\ RowsOf(events, to_string(last.id)) = {1, 2}
    /\ ~Malformed(events[1])
    /\ events[2].data.form = "garbage"
    /\ last.res = Err(DomainEventError(JsonParseError))

(***************************************************************************)
(* C10: round trip.  After persist(Generation::first(), events) returned   *)
(* Ok for envelopes of one aggregate id that had no row before, get(id)    *)
(* returns what hydrate returns on the payloads of events: the same        *)
(* Project or the same transition error.                                   *)
(***************************************************************************)
C10_RoundTrip ==
    (/\ last.op = "persist"
     /\ last.generation = first
     /\ last.res.ok
     /\ last.evs # <<>>
     /\ \A k \in 1..Len(last.evs) :
           last.evs[k].aggregate_id = last.evs[1].aggregate_id
     /\ \A i \in RowsOf(events, to_string(last.evs[1].aggregate_id)) :
           i > last.start)
    => get(events, last.evs[1].aggregate_id, TRUE)
          = Lifted(Project_hydrate(Payloads(last.evs)))

C10_Witness ==
    /\ last.op = "persist"
    /\ last.generation = first
    /\ last.res.ok
    /\ Len(last.evs) = 1
    /\ last.start = 1
    /\ last.evs[1].event.id # last.evs[1].aggregate_id
    /\ get(events, last.evs[1].aggregate_id, TRUE).ok

(***************************************************************************)
(* C11: hydrate returns Ok(None) exactly for the empty slice: the empty    *)
(* slice is never an error, and a non-empty slice gives Ok(Some(state)) or *)
(* an error.  The loop run step by step returns what the fold returns.     *)
(***************************************************************************)
C11_HydrateNoneIffEmpty ==
    (applied.op = "hydrate" /\ applied.done) =>
        /\ applied.events = <<>> => applied.acc = Ok(None)
        /\ applied.events # <<>> => (~applied.acc.ok \/ applied.acc.val.some)
        /\ applied.acc = hydrate(applied.agg, applied.events)

C11_Witness ==
    /\ applied.op = "hydrate"
    /\ applied.done
    /\ applied.events = <<>>
    /\ applied.acc = Ok(None)

(***************************************************************************)
(* C12: hydrate returns the first error apply_event raises, in slice       *)
(* order, and applies nothing after it.  With n the number of events the   *)
(* finished call applied: every event before the n-th was accepted; if the *)
(* call returned an error it is the one apply_event gave for the n-th      *)
(* event on the state of the first n-1, and it carries no state; if it     *)
(* returned Ok every event was applied and accepted.                       *)
(***************************************************************************)
C12_HydrateStopsAtFirstError ==
    (applied.op = "hydrate" /\ applied.done) =>
        LET n == applied.i
            pre(k) == hydrate(applied.agg, SubSeq(applied.events, 1, k - 1))
            try(k) == apply_event(applied.agg, pre(k).val, applied.events[k])
        IN  /\ n <= Len(applied.events)
            /\ \A k \in 1..(n - 1) : pre(k).ok /\ try(k).ok
            /\ ~applied.acc.ok =>
                  /\ n >= 1
                  /\ pre(n).ok
                  /\ ~try(n).ok
                  /\ applied.acc = try(n)
                  /\ DOMAIN applied.acc = {"ok", "err"}
            /\ applied.acc.ok =>
                  /\ n = Len(applied.events)
                  /\ n >= 1 => (pre(n).ok /\ try(n).ok)

C12_Witness ==
    /\ applied.op = "hydrate"
    /\ applied.done
    /\ Len(applied.events) = 3
    /\ applied.i = 2
    /\ ~applied.acc.ok
    /\ applied.acc.err.event = applied.events[2]

C14_CreatePersistsOneCreatedRow ==
    (last.op \in {"create", "exec_create"} /\ last.res # Panic) =>
        /\ ~last.res.ok => Len(events) = last.start
        /\ last.res.ok =>
              /\ Len(events) = last.start + 1
              /\ events[Len(events)].aggregate_id = to_string(last.id)
              /\ events[Len(events)].generation = first
              /\ events[Len(events)].type_ = "Created"
              /\ serde_json_from_str(events[Len(events)].data)
                    = Ok(Created(last.id, last.name))
              /\ (\A i \in 1..last.start :
                     events[i].aggregate_id # to_string(last.id))
                 => RowsOf(events, to_string(last.id)) = {Len(events)}

C14_Witness ==
    /\ last.op = "exec_create"
    /\ last.res.ok
    /\ last.start = 1
    /\ Len(events) = 2
    /\ RowsOf(events, to_string(last.id)) = {2}
    /\ events[2].generation = first
    /\ events[2].type_ = "Created"

(***************************************************************************)
(* C15: after a create_project command returned Project P, with P's row    *)
(* the only row of its id, P is Project{id, generation 0, name} of the     *)
(* command and get(P.id) returns P.  In general a get of an id whose only  *)
(* row is a well-formed Created row at generation 0 naming that id returns *)
(* Project{id, generation 0, name of the row}.                             *)
(***************************************************************************)
C15_GetAfterCreateReturnsProject ==
    /\ (/\ last.op \in {"create", "exec_create"}
        /\ last.res.ok
        /\ RowsOf(events, to_string(last.id)) = {Len(events)})
       => /\ last.res.val =
                [id |-> last.id, generation |-> first, name |-> last.name]
          /\ get(events, last.id, TRUE) = Ok(last.res.val)
    /\ (last.op = "get" /\ last.io) =>
           \A i \in 1..Len(events) : \A n \in Names :
               (/\ RowsOf(events, to_string(last.id)) = {i}
                /\ ~Malformed(events[i])
                /\ events[i].generation = first
                /\ serde_json_from_str(events[i].data) = Ok(Created(last.id, n)))
               => last.res = Ok([id |-> last.id, generation |-> first, name |-> n])

C15_Witness ==
    /\ last.op = "get"
    /\ last.io
    /\ last.id \in minted
    /\ Len(events) = 2
    /\ last.res = Ok([id |-> last.id, generation |-> first, name |-> "test"])

(***************************************************************************)
(* C16: if every stored row of the id decodes and hydrate rejects one of   *)
(* the events, get(id) fails with ProjectError carrying hydrate's          *)
(* InvalidStateEvent and returns no Project.  Two Created rows of one id   *)
(* are such a case: the error names the Project of the first row and the   *)
(* event of the second.                                                    *)
(***************************************************************************)
C16_HydrateRejectionIsProjectError ==
    (last.op = "get" /\ last.io) =>
        LET rows == filter_load(events, to_string(last.id))
            payloads == [k \in 1..Len(rows) |-> from_event(rows[k]).val.event]
        IN  (\A k \in 1..Len(rows) : from_event(rows[k]).ok) =>
                /\ ~hydrate("Project", payloads).ok =>
                      last.res = Err(ProjectError(hydrate("Project", payloads).err))
                /\ Len(rows) >= 2 =>
                      last.res = Err(ProjectError(InvalidStateEvent(
                          Some([id |-> payloads[1].id, generation |-> first,
                                name |-> payloads[1].name]),
                          payloads[2])))

C16_Witness ==
    /\ last.op = "get"
    /\ last.io
    /\ RowsOf(events, to_string(last.id)) = {1, 2}
    /\ ~last.res.ok
    /\ last.res.err.kind = "ProjectError"
    /\ last.res.err.cause.kind = "InvalidStateEvent"

(***************************************************************************)
(* C17: a persist whose starting generation is not the number of rows      *)
(* already stored for the aggregate id fails with a concurrency-conflict   *)
(* error of its own kind and stores nothing.                               *)
(***************************************************************************)
C17_StaleGenerationIsConflict ==
    (/\ last.op = "persist"
     /\ last.evs # <<>>
     /\ last.generation #
           Cardinality({i \in 1..last.start :
               events[i].aggregate_id = to_string(last.evs[1].aggregate_id)}))
    => /\ ~last.res.ok
       /\ last.res.err.kind = "ConflictError"
       /\ Cardinality(Inserted) = 0

(***************************************************************************)
(* C18: an insert failure inside persist aborts the batch.  An insert      *)
(* fails when the storage call fails or the event's id is already a key of *)
(* the table.  The rows a call stored are the rows of its first events, in *)
(* order, none of which failed; a call that did not return Ok stopped at   *)
(* the first failing insert, stored neither that event nor any after it,   *)
(* and returned DatabaseError with that insert's cause; a call with a      *)
(* failing insert never returns Ok.  (A call that panicked did not         *)
(* return.)                                                                *)
(***************************************************************************)
C18_InsertFailureAbortsBatch ==
    (last.op = "persist" /\ last.res # Panic) =>
        LET n == Cardinality(Inserted)
            taken(k) ==
                \/ \E i \in 1..last.start :
                      events[i].id = to_string(last.evs[k].id)
                \/ \E j \in 1..(k - 1) : last.evs[j].id = last.evs[k].id
            fails(k) == k = last.failAt \/ taken(k)
        IN  /\ n <= Len(last.evs)
            /\ \A k \in 1..n :
                  /\ events[last.start + k].id = to_string(last.evs[k].id)
                  /\ ~fails(k)
            /\ last.res.ok => n = Len(last.evs)
            /\ ~last.res.ok =>
                  /\ n < Len(last.evs)
                  /\ fails(n + 1)
                  /\ last.res = Err(DatabaseError(
                        IF n + 1 = last.failAt THEN IoError ELSE UniqueViolation))

C18_Witness ==
    /\ last.op = "persist"
    /\ Len(last.evs) = 2
    /\ last.failAt = 1
    /\ last.evs[1].id # last.evs[2].id
    /\ last.start = 0
    /\ events = <<>>
    /\ last.res = Err(DatabaseError(IoError))

(***************************************************************************)
(* C19: the event log is append-only.  In every step of get, persist and   *)
(* create_project the table after the step begins with the table before    *)
(* it: no stored row is changed, moved or removed.                         *)
(***************************************************************************)
C19_AppendOnly ==
    [][/\ Len(events') >= Len(events)
       /\ SubSeq(events', 1, Len(events)) = events]_vars

C19_Witness ==
    /\ last.op = "exec_create"
    /\ ~last.res.ok
    /\ last.start = 1
    /\ Len(events) = 1

\* The error a boundary error wraps: the repository's or the aggregate's.
underlying(e) ==
    IF e.kind \in {"CreateProjectError", "ListProjectError"}
    THEN IF e.cause.kind = "RepositoryError" THEN e.cause.cause ELSE e.cause
    ELSE e

(***************************************************************************)
(* C20: the boundary's status for a failed create or lookup command        *)
(* follows the kind of the underlying error: not-found gives 404, a        *)
(* transition error (ProjectError) or a decode error (DomainEventError)    *)
(* gives 400, a storage error (DatabaseError, the pool) gives 500.         *)
(***************************************************************************)
C20_StatusFollowsErrorKind ==
    (last.op \in {"exec_create", "exec_list"} /\ ~last.res.ok) =>
        LET kind == underlying(last.res.err).kind
        IN  /\ kind = "NotFoundError" => last.status = 404
            /\ kind \in {"ProjectError", "DomainEventError"} => last.status = 400
            /\ kind \in {"DatabaseError", "DatabasePoolError"} => last.status = 500

(***************************************************************************)
(* C21: Project has one reachable state, reached by one event: hydrate for *)
(* Project returns Ok(Some(project)) exactly when the slice is one Created *)
(* event, and that project has the event's id and name and generation 0.   *)
(***************************************************************************)
C21_ProjectHasOneState ==
    (applied.op = "hydrate" /\ applied.done /\ applied.agg = "Project") =>
        /\ (applied.acc.ok /\ applied.acc.val.some) <=> Len(applied.events) = 1
        /\ Len(applied.events) = 1 =>
              /\ applied.events[1].variant = "Created"
              /\ applied.acc = Ok(Some([id |-> applied.events[1].id,
                                        generation |-> 0,
                                        name |-> applied.events[1].name]))

C21_Witness ==
    /\ applied.op = "hydrate"
    /\ applied.done
    /\ applied.agg = "Project"
    /\ Len(applied.events) = 1
    /\ applied.acc.ok
    /\ applied.acc.val.v.name = "test"
    /\ applied.acc.val.v.generation = 0

(***************************************************************************)
(* C22: Project::create(id, name) and Toggle::create(id, name) return Ok   *)
(* with a list of exactly one event, Created{id, name} with the id and     *)
(* name given, and the table and the connection are as they were.          *)
(***************************************************************************)
C22_CreateReturnsOneCreated ==
    applied.op = "create" =>
        /\ applied.res.ok
        /\ Len(applied.res.val) = 1
        /\ applied.res.val[1] =
              [variant |-> "Created", id |-> applied.id, name |-> applied.name]
        /\ events = <<>>
        /\ last = [op |-> "init"]

C22_Witness ==
    /\ applied.op = "create"
    /\ applied.agg = "Project"
    /\ applied.name = "test"
    /\ applied.res.ok
    /\ applied.res.val[1].name = "test"

(***************************************************************************)
(* C24: Generation is a zero-based, strictly increasing, never negative    *)
(* counter: first() is 0 and next(g) returns a generation that is g + 1,   *)
(* greater than g and not negative, for every g up to and including the    *)
(* largest 32-bit signed value.                                            *)
(***************************************************************************)
C24_GenerationNextIncreases ==
    /\ applied.op = "first" => applied.res = 0
    /\ applied.op = "next" =>
          /\ applied.res.ok
          /\ applied.res.val > applied.g
          /\ applied.res.val >= 0
          /\ applied.g < MaxI32 => applied.res.val = applied.g + 1

(***************************************************************************)
(* C23: a creation command with an empty name is rejected with the         *)
(* transition error InvalidName, which reaches the caller, and no row is   *)
(* persisted for it.                                                       *)
(***************************************************************************)
C23_EmptyNameIsRejected ==
    (last.op \in {"create", "exec_create"} /\ last.name = "") =>
        /\ ~last.res.ok
        /\ underlying(last.res.err).kind = "InvalidName"
        /\ Len(events) = last.start

(***************************************************************************)
(* C25: get returns NotFoundError exactly when the load went through and   *)
(* found no row of the id.  A load that fails gives DatabaseError, a       *)
(* malformed row of the id gives DomainEventError, rows that decode but    *)
(* that hydrate rejects give ProjectError, and none of these is            *)
(* NotFoundError: every failed get carries one of these four kinds.        *)
(***************************************************************************)
C25_NotFoundIffNoRows ==
    last.op = "get" =>
        LET rows == RowsOf(events, to_string(last.id))
            kind == IF last.res.ok THEN "Ok" ELSE last.res.err.kind
        IN  /\ kind = "NotFoundError" <=> (last.io /\ rows = {})
            /\ kind = "DatabaseError" <=> ~last.io
            /\ kind = "DomainEventError" <=>
                  (last.io /\ \E i \in rows : Malformed(events[i]))
            /\ kind = "ProjectError" <=>
                  /\ last.io
                  /\ Cardinality(rows) >= 2
                  /\ \A i \in rows : ~Malformed(events[i])
            /\ kind = "Ok" <=>
                  /\ last.io
                  /\ Cardinality(rows) = 1
                  /\ \A i \in rows : ~Malformed(events[i])

C25_Witness ==
    /\ last.op = "get"
    /\ ~last.io
    /\ events = <<>>
    /\ last.res = Err(DatabaseError(IoError))

(***************************************************************************)
(* C26: cross-aggregate isolation.  In every step, for every id: if the    *)
(* step stored no row whose aggregate_id is that id, get(id) returns after *)
(* the step what it returned before it; and the rows a persist stored      *)
(* carry the aggregate ids of its envelopes and no other.                  *)
(***************************************************************************)
C26_OtherAggregatesDoNotInterfere ==
    [][/\ \A id \in Uuids \cup MintPool :
             (\A i \in (Len(events) + 1)..Len(events') :
                 events'[i].aggregate_id # to_string(id))
             => get(events', id, TRUE) = get(events, id, TRUE)
       /\ last'.op = "persist" =>
             \A i \in (Len(events) + 1)..Len(events') :
                 \E k \in 1..Len(last'.evs) :
                     events'[i].aggregate_id = to_string(last'.evs[k].aggregate_id)]_vars

C26_Witness ==
    /\ last.op = "persist"
    /\ last.res.ok
    /\ last.start = 1
    /\ Len(events) = 2
    /\ events[1].aggregate_id # events[2].aggregate_id
    /\ get(events, parse_str(events[1].aggregate_id).val, TRUE).ok
    /\ get(events, parse_str(events[2].aggregate_id).val, TRUE).ok

(***************************************************************************)
(* C27: get is read-only: whatever a get returned (a Project, not found, a *)
(* decode error, a transition error, a storage error), the table after the *)
(* call is the table before it.                                            *)
(***************************************************************************)
C27_GetIsReadOnly ==
    [][last'.op = "get" => events' = events]_vars

C27_Witness ==
    /\ last.op = "get"
    /\ last.io
    /\ Len(events) = 2
    /\ RowsOf(events, to_string(last.id)) = {1, 2}
    /\ last.res.err.kind = "DomainEventError"

(***************************************************************************)
(* C28: create commands handled side by side on the worker pool, each for  *)
(* its own freshly minted id, do not interfere: every command that got a   *)
(* connection succeeds, its id ends with exactly one row, at generation 0, *)
(* and get of the id returns the Project with the command's name.          *)
(***************************************************************************)
C28_ConcurrentCreatesAllSucceed ==
    \A w \in 1..NumWorkers :
        (workers[w].pc = "done" /\ workers[w].res # Err(DatabasePoolError)) =>
            /\ workers[w].res.ok
            /\ \E i \in 1..Len(events) :
                  /\ RowsOf(events, to_string(workers[w].id)) = {i}
                  /\ events[i].generation = first
            /\ get(events, workers[w].id, TRUE) =
                  Ok([id |-> workers[w].id, generation |-> first,
                      name |-> workers[w].name])

(***************************************************************************)
(* C29: a create command that fails inside the Executor's transaction      *)
(* leaves the table exactly as it was before the command, rows of earlier  *)
(* commands included, and the caller receives the error, wrapped as        *)
(* CreateProjectError, and no Project.                                     *)
(***************************************************************************)
C29_FailedCreateIsRolledBack ==
    [][(last'.op = "exec_create" /\ ~last'.res.ok
            /\ last'.res # Err(DatabasePoolError)) =>
          /\ events' = events
          /\ last'.res.err.kind = "CreateProjectError"
          /\ RowsOf(events', to_string(last'.id)) = {}]_vars

C29_Witness ==
    /\ last.op = "exec_create"
    /\ last.res = Err(CreateProjectError(RepositoryError(DatabaseError(IoError))))
    /\ last.start = 1
    /\ Len(events) = 1
    /\ last.status = BAD_REQUEST

(***************************************************************************)
(* C30: on a table written by create_project commands only, a get(id) that *)
(* returns a Project returns one whose id is the requested id and whose    *)
(* generation is the highest generation stored in the rows of that id.     *)
(***************************************************************************)
C30_GetReturnsIdAndHighestGeneration ==
    (last.op = "get" /\ last.res.ok) =>
        LET rows == RowsOf(events, to_string(last.id))
        IN  /\ last.res.val.id = last.id
            /\ \E i \in rows : events[i].generation = last.res.val.generation
            /\ \A i \in rows : events[i].generation <= last.res.val.generation

C30_Witness ==
    /\ last.op = "get"
    /\ last.res.ok
    /\ last.id \in Uuids
    /\ Len(events) = 2
    /\ \E i \in 1..2 : events[i].aggregate_id # to_string(last.id)

(***************************************************************************)
(* C31: get decodes every loaded row of the id before it applies any       *)
(* event.  When a row of the id is malformed, get returns the decode error *)
(* of the first malformed row in load order, also when the rows that       *)
(* decode would by themselves be rejected by hydrate (two Created rows).   *)
(***************************************************************************)
C31_DecodeErrorComesBeforeTransitionError ==
    (last.op = "get" /\ last.io) =>
        LET rows == filter_load(events, to_string(last.id))
            bad == {k \in 1..Len(rows) : ~from_event(rows[k]).ok}
        IN  bad # {} =>
                \E k \in bad :
                    /\ \A j \in bad : k <= j
                    /\ last.res = Err(DomainEventError(from_event(rows[k]).err))

C31_Witness ==
    /\ last.op = "get"
    /\ last.io
    /\ RowsOf(events, to_string(last.id)) = {1, 2, 3}
    /\ from_event(events[1]).ok
    /\ from_event(events[2]).ok
    /\ ~from_event(events[3]).ok
    /\ ~Project_hydrate(collect_skipping(events).val).ok
    /\ last.res = Err(DomainEventError(from_event(events[3]).err))

(***************************************************************************)
(* C32: persist called with an empty slice of events returns Ok(()) and    *)
(* leaves the table as it was, whatever the starting generation, the       *)
(* largest i32 included.                                                   *)
(***************************************************************************)
C32_PersistOfNothingIsNoOp ==
    [][(last'.op = "persist" /\ last'.evs = <<>>) =>
          (last'.res = Ok(Unit) /\ events' = events)]_vars

C32_Witness ==
    /\ last.op = "persist"
    /\ last.evs = <<>>
    /\ last.generation = MaxI32
    /\ overflow_checks
    /\ Len(events) = 2
    /\ last.res = Ok(Unit)

(***************************************************************************)
(* C33: applying Created{id, name} to no state (None) succeeds for Project *)
(* and for Toggle, and the new state has exactly that id and name at       *)
(* generation Generation::first(); a Toggle also has version 0.            *)
(***************************************************************************)
C33_CreatedOnNoneStartsTheAggregate ==
    (/\ applied.op = "apply_event"
     /\ applied.state = None
     /\ applied.event.variant = "Created") =>
        applied.res =
            Ok(IF applied.agg = "Project"
               THEN [id |-> applied.event.id, generation |-> first,
                     name |-> applied.event.name]
               ELSE [id |-> applied.event.id, generation |-> first,
                     name |-> applied.event.name, version |-> 0])

C33_Witness ==
    /\ applied.op = "apply_event"
    /\ applied.agg = "Toggle"
    /\ applied.state = None
    /\ applied.event.variant = "Created"
    /\ applied.res.ok
    /\ applied.res.val.name = "test"
    /\ applied.res.val.version = 0

====
